---- MODULE Spec2Model ----
(***************************************************************************)
(* A model of src/src/lib.rs: RawVec (the storage), Vec (the sequence),    *)
(* RawIter (the cursor), IntoIter (the consuming iterator) and Drain (the  *)
(* drain extractor).                                                       *)
(*                                                                         *)
(* Elements are numbered 1, 2, 3, ... in the order the caller constructs   *)
(* them; the number is both the element's identity and its value (the      *)
(* tests use Box::new(i)).  Slots are indexed from 0 as in the source.     *)
(* A slot holds a live element, or Uninit: memory without a live value,    *)
(* either because the allocator handed it out and nobody wrote it, or      *)
(* because ptr::read moved its value out (the bits stay, the value is now  *)
(* the reader's).  Reading an Uninit slot yields an arbitrary value, the   *)
(* stale bits among them.                                                  *)
(***************************************************************************)
EXTENDS Integers, Sequences, FiniteSets, TLC

\* ---------------------------------------------------------------- bounds
\* The number of elements the caller constructs in one behaviour.
MaxElems == 5
\* How many out-of-range indices, counted from the first one, a caller tries.
OobSpan == 2

\* ------------------------------------------------------ program constants
\* std::isize::MAX of lib.rs:46, on a machine whose word has 8 bits.
ISizeMax == 127
\* mem::size_of::<T>() for the element type of the Vec, in bytes.
ElemSize == 16
\* mem::size_of::<usize>() on that machine: tests::grow uses RawVec::<usize>.
RawElemSize == 1
\* usize::MAX + 1 on that machine: `self.cap * 2` is computed modulo it.
UsizeMod == 256

\* A slot without a live value.
Uninit == -1

VARIABLES
    cap,      \* Vec.buf.cap (after into_iter: IntoIter._buf.cap)
    len,      \* Vec.len
    mem,      \* the block behind buf.ptr: slot index -> bits
    blk,      \* byte size of that block as the allocator knows it; 0: no block
    mode,     \* the object the caller works on: "vec", "iter" (IntoIter),
              \* "drain" (Drain), "raw" (the stand-alone RawVec), "done"
    start,    \* RawIter.start, as a slot index
    end,      \* RawIter.end, as a slot index
    nextId,   \* the number the next constructed element gets
    dropCnt,  \* value -> how often a destructor ran on it
    handed,   \* value -> how often it was handed to the caller
    lastOp,   \* the last operation: its name, arguments, result
    lifo,     \* progress of the run "appends only, then remove_last only"
    snap,     \* contents [0, len) when the live iterator/extractor was made
    fwd,      \* what the live iterator/extractor yielded to next()
    bwd,      \* what it yielded to next_back()
    reuse,    \* progress of the run "drain, then appends only"
    grows,    \* successful grow calls on Vec.buf
    rawCap,   \* cap of a stand-alone RawVec<usize> (tests::grow)
    rawGrows, \* successful grow calls on the stand-alone RawVec
    heap      \* the allocator's side: live blocks, and the call the last
              \* operation made with the sizes it passed

vars == <<cap, len, mem, blk, mode, start, end, nextId, dropCnt, handed,
          lastOp, lifo, snap, fwd, bwd, reuse, grows, rawCap, rawGrows,
          heap>>

vecVars == <<cap, len, mem, blk, grows>>
iterVars == <<start, end, snap, fwd, bwd>>
rawVars == <<rawCap, rawGrows>>

\* --------------------------------------------------------------- helpers
Min(a, b) == IF a < b THEN a ELSE b

\* Option<T>: None is <<>>, Some(v) is <<v>>.
None == <<>>
Some(v) == <<v>>

\* The slice the Vec derefs to: slots [0, len) in order.
Deref(m, n) == [i \in 1..n |-> m[i - 1]]

\* What a read of a slot holding s can yield.
ReadVals(s) == IF s = Uninit THEN 0..(nextId - 1) ELSE {s}

\* What reads of slots a, a+1, ..., b-1 of m can yield, in that order.
RECURSIVE ReadSeqs(_, _, _)
ReadSeqs(m, a, b) ==
    IF a >= b THEN {<<>>}
    ELSE {<<v>> \o rest : v \in ReadVals(m[a]), rest \in ReadSeqs(m, a + 1, b)}

\* ptr::read moved the value of slot i out of block m.
MovedOut(m, i) == [m EXCEPT ![i] = Uninit]

Bump(f, v) == [f EXCEPT ![v] = @ + 1]

\* The tally after destructors ran on vs[1], vs[2], ...
RECURSIVE BumpAll(_, _)
BumpAll(f, vs) == IF vs = <<>> THEN f ELSE BumpAll(Bump(f, Head(vs)), Tail(vs))

Op(name, idx, val, ret, grew, before) ==
    [op |-> name, idx |-> idx, val |-> val, ret |-> ret, grew |-> grew,
     before |-> before]

\* ------------------------------------------------------------ RawVec::grow
\* Mutant: grows by one slot instead of doubling.
NewCapPlusOne(c) == c + 1

NewCap(c) == IF c = 0 THEN 1 ELSE (c * 2) % UsizeMod

\* Layout::array::<T>(n).size()
ArraySize(n, esz) == n * esz

\* Mutant: grow does not look at the size it is about to ask for.
GrowPanicsNever(c, esz) == FALSE

\* grow panics with "capacity overflow" (or in Layout::array(..).unwrap())
\* instead of reallocating.
GrowPanics(c, esz) == c # 0 /\ ArraySize(NewCap(c), esz) >= ISizeMax

\* The size grow passes to realloc as the block's current layout:
\* `layout` is Layout::new::<T>(), one element.
ReallocOldSize(c, esz) == esz

\* alloc::alloc(layout): a block of one uninitialised slot.
Alloc == [i \in 0..0 |-> Uninit]

\* alloc::realloc(ptr, layout, new_size).  The allocator keeps the bytes it
\* takes the block to have: an allocator that tracks its blocks' sizes
\* (libc realloc) keeps all of them, one that trusts the caller's layout
\* (GlobalAlloc's default realloc, System's fallback for over-aligned
\* types) copies min(layout.size(), new_size) bytes.
ReallocKept(trueSize, oldSize, newSize) ==
    {Min(trueSize, newSize), Min(oldSize, newSize)}

Realloc(m, kept, newSize, esz) ==
    [i \in 0..((newSize \div esz) - 1) |->
        IF (i + 1) * esz <= kept THEN m[i] ELSE Uninit]

\* The storages grow can leave behind, given cap c, block m of b bytes.
GrowOutcomes(c, m, b) ==
    IF c = 0
    THEN {[cap |-> NewCap(c), mem |-> Alloc, blk |-> ElemSize]}
    ELSE {[cap |-> NewCap(c),
           mem |-> Realloc(m, k, ArraySize(NewCap(c), ElemSize), ElemSize),
           blk |-> ArraySize(NewCap(c), ElemSize)] :
          k \in ReallocKept(b, ReallocOldSize(c, ElemSize),
                            ArraySize(NewCap(c), ElemSize))}

\* ----------------------------------------------------------- the allocator
\* The operation made no allocator call (and did not call grow).
NoCall(h) ==
    [live |-> h.live, call |-> "none", old |-> 0, size |-> 0, actual |-> 0,
     grow |-> "none"]

\* grow refused before any allocator call: "capacity overflow".
GrowOverflow(h) == [NoCall(h) EXCEPT !.grow = "overflow"]

\* What a successful grow asks of the allocator, the storage having cap c and
\* a block of b bytes: alloc(layout) from cap 0, else
\* realloc(ptr, layout, new_layout.size()).  `actual` is the size the
\* allocator gave the block, `old` the size the caller says it has.
GrowCall(h, c, b, esz) ==
    IF c = 0
    THEN [live |-> h.live + 1, call |-> "alloc", old |-> 0, size |-> esz,
          actual |-> 0, grow |-> "ok"]
    ELSE [live |-> h.live, call |-> "realloc", old |-> ReallocOldSize(c, esz),
          size |-> ArraySize(NewCap(c), esz), actual |-> b, grow |-> "ok"]

\* The same call answered with a null pointer: no block is made or moved.
GrowNullCall(h, c, b, esz) ==
    [GrowCall(h, c, b, esz) EXCEPT !.live = h.live, !.grow = "null"]

\* Mutant: RawVec's Drop passes the layout of one element, as grow does.
DeallocSizeOne(c, esz) == esz

\* Layout::array::<T>(self.cap).unwrap() of RawVec's Drop.
DeallocSize(c, esz) == ArraySize(c, esz)

\* What RawVec's Drop asks of the allocator.
DropCall(h, c, b, esz) ==
    IF c # 0
    THEN [live |-> h.live - 1, call |-> "dealloc", old |-> 0,
          size |-> DeallocSize(c, esz), actual |-> b, grow |-> "none"]
    ELSE NoCall(h)

\* Mutant: cap is assigned before the pointer is looked at.
CapAfterNullStored(c) == NewCap(c)

\* The allocator returned null: grow leaves at line 57 (Unique::new(null)
\* is None, unwrap panics) or at line 53 (rust_oom), before `self.cap =`.
CapAfterNull(c) == c

\* How grow ends on a null pointer: the panic of unwrap unwinds, rust_oom
\* aborts the process.
NullEnds(c) == IF c = 0 THEN "panic" ELSE "abort"

\* `if self.buf.cap == self.len` of push, `if self.len == self.buf.cap` of
\* insert.
\* Mutant: grows one element too late.
NeedsGrowLate(c, n) == c + 1 = n

NeedsGrow(c, n) == c = n

\* The storage an operation writes into: grown first when full.
Room == IF NeedsGrow(cap, len) THEN GrowOutcomes(cap, mem, blk)
        ELSE {[cap |-> cap, mem |-> mem, blk |-> blk]}

\* What that asks of the allocator.
RoomCall == IF NeedsGrow(cap, len) THEN GrowCall(heap, cap, blk, ElemSize)
            ELSE NoCall(heap)

\* No run "drain, then appends only" is in progress.
NoReuse == [live |-> FALSE, cap |-> 0, n |-> 0, exhausted |-> FALSE, pushes |-> 0]

\* That run after one more append; it ends with the append that fills the
\* capacity the extractor left behind.
ReusePush ==
    IF reuse.live /\ reuse.pushes < reuse.cap
    THEN [reuse EXCEPT !.pushes = @ + 1]
    ELSE NoReuse

LifoOff == [phase |-> "off", pops |-> 0]

\* ------------------------------------------------------------------- Init
Init ==
    /\ cap = 0
    /\ len = 0
    /\ mem = <<>>
    /\ blk = 0
    /\ mode = "vec"
    /\ start = 0
    /\ end = 0
    /\ nextId = 1
    /\ dropCnt = [v \in 0..MaxElems |-> 0]
    /\ handed = [v \in 0..MaxElems |-> 0]
    /\ lastOp = Op("new", 0, 0, None, FALSE, <<>>)
    /\ lifo = [phase |-> "push", pops |-> 0]
    /\ snap = <<>>
    /\ fwd = <<>>
    /\ bwd = <<>>
    /\ reuse = NoReuse
    /\ grows = 0
    /\ rawCap = 0
    /\ rawGrows = 0
    /\ heap = [live |-> 0, call |-> "none", old |-> 0, size |-> 0,
               actual |-> 0, grow |-> "none"]

\* ------------------------------------------------------------- Vec::push
Push ==
    /\ mode = "vec"
    /\ nextId <= MaxElems
    /\ ~(NeedsGrow(cap, len) /\ GrowPanics(cap, ElemSize))
    /\ \E r \in Room :
        /\ cap' = r.cap
        /\ blk' = r.blk
        /\ mem' = [r.mem EXCEPT ![len] = nextId]
    /\ len' = len + 1
    /\ grows' = IF NeedsGrow(cap, len) THEN grows + 1 ELSE grows
    /\ lastOp' = Op("push", len, nextId, None, NeedsGrow(cap, len), <<>>)
    /\ nextId' = nextId + 1
    /\ lifo' = IF lifo.phase = "push" THEN lifo ELSE LifoOff
    /\ reuse' = ReusePush
    /\ UNCHANGED <<mode, dropCnt, handed>>
    /\ UNCHANGED iterVars
    /\ UNCHANGED rawVars
    /\ heap' = RoomCall

\* Vec::push when grow panics: the Vec is untouched, unwinding drops elem.
PushCapacityOverflow ==
    /\ mode = "vec"
    /\ nextId <= MaxElems
    /\ NeedsGrow(cap, len) /\ GrowPanics(cap, ElemSize)
    /\ nextId' = nextId + 1
    /\ dropCnt' = Bump(dropCnt, nextId)
    /\ lastOp' = Op("push_panic", len, nextId, None, FALSE, <<>>)
    /\ lifo' = LifoOff
    /\ reuse' = NoReuse
    /\ UNCHANGED <<mode, handed>>
    /\ UNCHANGED vecVars
    /\ UNCHANGED iterVars
    /\ UNCHANGED rawVars
    /\ heap' = GrowOverflow(heap)

\* Vec::push when the allocator answers grow with null: from cap 0 unwrap
\* panics and unwinding drops elem, else rust_oom aborts the process.
PushAllocNull ==
    /\ mode = "vec"
    /\ nextId <= MaxElems
    /\ NeedsGrow(cap, len) /\ ~GrowPanics(cap, ElemSize)
    /\ cap' = CapAfterNull(cap)
    /\ heap' = GrowNullCall(heap, cap, blk, ElemSize)
    /\ mode' = IF NullEnds(cap) = "abort" THEN "aborted" ELSE mode
    /\ dropCnt' = IF NullEnds(cap) = "panic" THEN Bump(dropCnt, nextId)
                  ELSE dropCnt
    /\ nextId' = nextId + 1
    /\ lastOp' = Op("push_null", len, nextId, None, FALSE, <<>>)
    /\ lifo' = LifoOff
    /\ reuse' = NoReuse
    /\ UNCHANGED <<len, mem, blk, grows, handed>>
    /\ UNCHANGED iterVars
    /\ UNCHANGED rawVars

\* -------------------------------------------------------------- Vec::pop
\* self.len -= 1
PopLen(n) == n - 1

\* The run "N appends to a new Vec, then pops only" after one more pop; it
\* ends with the pop after the one that found the Vec empty.
LifoPop ==
    IF lifo.phase = "off" \/ lifo.pops > nextId - 1
    THEN LifoOff
    ELSE [phase |-> "pop", pops |-> lifo.pops + 1]

Pop ==
    /\ mode = "vec"
    /\ IF len = 0
       THEN /\ lastOp' = Op("pop", 0, 0, None, FALSE, <<>>)
            /\ UNCHANGED <<len, mem, handed>>
       ELSE /\ len' = PopLen(len)
            /\ \E v \in ReadVals(mem[len']) :
                /\ handed' = Bump(handed, v)
                /\ lastOp' = Op("pop", len', 0, Some(v), FALSE, <<>>)
            /\ mem' = MovedOut(mem, len')
    /\ lifo' = LifoPop
    /\ reuse' = NoReuse
    /\ UNCHANGED <<cap, blk, grows, mode, nextId, dropCnt>>
    /\ UNCHANGED iterVars
    /\ UNCHANGED rawVars
    /\ heap' = NoCall(heap)

\* ----------------------------------------------------------- Vec::insert
\* ptr::copy(src, dst, count): memmove of count slots inside block m.
PtrCopy(m, src, dst, count) ==
    [i \in DOMAIN m |->
        IF dst <= i /\ i < dst + count THEN m[i - dst + src] ELSE m[i]]

\* The block after lines 104-107: open the hole at index, write elem.
InsertMem(m, n, index, elem) ==
    LET shifted == IF index < n THEN PtrCopy(m, index, index + 1, n - index)
                   ELSE m
    IN  [shifted EXCEPT ![index] = elem]

\* Mutant: the assert lets the index one past the end through.
InsertIndexOkLoose(index, n) == index <= n + 1

\* assert!(index <= self.len)
InsertIndexOk(index, n) == index <= n

Insert ==
    /\ mode = "vec"
    /\ nextId <= MaxElems
    /\ ~(NeedsGrow(cap, len) /\ GrowPanics(cap, ElemSize))
    /\ \E index \in 0..(len + OobSpan) : \E r \in Room :
        /\ InsertIndexOk(index, len)
        /\ cap' = r.cap
        /\ blk' = r.blk
        /\ mem' = InsertMem(r.mem, len, index, nextId)
        /\ lastOp' = Op("insert", index, nextId, None, NeedsGrow(cap, len), Deref(mem, len))
    /\ len' = len + 1
    /\ grows' = IF NeedsGrow(cap, len) THEN grows + 1 ELSE grows
    /\ nextId' = nextId + 1
    /\ lifo' = LifoOff
    /\ reuse' = NoReuse
    /\ UNCHANGED <<mode, dropCnt, handed>>
    /\ UNCHANGED iterVars
    /\ UNCHANGED rawVars
    /\ heap' = RoomCall

\* assert!(index <= self.len) fails: nothing was touched, unwinding drops elem.
InsertOutOfBounds ==
    /\ mode = "vec"
    /\ nextId <= MaxElems
    /\ \E index \in 0..(len + OobSpan) :
        /\ ~InsertIndexOk(index, len)
        /\ lastOp' = Op("insert_oob", index, nextId, None, FALSE, <<>>)
    /\ nextId' = nextId + 1
    /\ dropCnt' = Bump(dropCnt, nextId)
    /\ lifo' = LifoOff
    /\ reuse' = NoReuse
    /\ UNCHANGED <<mode, handed>>
    /\ UNCHANGED vecVars
    /\ UNCHANGED iterVars
    /\ UNCHANGED rawVars
    /\ heap' = NoCall(heap)

\* The assert passed and grow panics: nothing was touched, elem is dropped.
InsertCapacityOverflow ==
    /\ mode = "vec"
    /\ nextId <= MaxElems
    /\ NeedsGrow(cap, len) /\ GrowPanics(cap, ElemSize)
    /\ \E index \in 0..(len + OobSpan) :
        /\ InsertIndexOk(index, len)
        /\ lastOp' = Op("insert_panic", index, nextId, None, FALSE, <<>>)
    /\ nextId' = nextId + 1
    /\ dropCnt' = Bump(dropCnt, nextId)
    /\ lifo' = LifoOff
    /\ reuse' = NoReuse
    /\ UNCHANGED <<mode, handed>>
    /\ UNCHANGED vecVars
    /\ UNCHANGED iterVars
    /\ UNCHANGED rawVars
    /\ heap' = GrowOverflow(heap)

\* The assert passed and the allocator answers grow with null.
InsertAllocNull ==
    /\ mode = "vec"
    /\ nextId <= MaxElems
    /\ NeedsGrow(cap, len) /\ ~GrowPanics(cap, ElemSize)
    /\ \E index \in 0..(len + OobSpan) :
        /\ InsertIndexOk(index, len)
        /\ lastOp' = Op("insert_null", index, nextId, None, FALSE, <<>>)
    /\ cap' = CapAfterNull(cap)
    /\ heap' = GrowNullCall(heap, cap, blk, ElemSize)
    /\ mode' = IF NullEnds(cap) = "abort" THEN "aborted" ELSE mode
    /\ dropCnt' = IF NullEnds(cap) = "panic" THEN Bump(dropCnt, nextId)
                  ELSE dropCnt
    /\ nextId' = nextId + 1
    /\ lifo' = LifoOff
    /\ reuse' = NoReuse
    /\ UNCHANGED <<len, mem, blk, grows, handed>>
    /\ UNCHANGED iterVars
    /\ UNCHANGED rawVars

\* ----------------------------------------------------------- Vec::remove
\* Mutant: the copy leaves the last element where it was.
RemoveMemShort(m, n, index) ==
    MovedOut(PtrCopy(m, index + 1, index, n - index - 1), n)

\* The block after lines 116-117, n being the length already decremented:
\* the hole is closed, the value of the last slot now lives one slot lower.
RemoveMem(m, n, index) == MovedOut(PtrCopy(m, index + 1, index, n - index), n)

\* assert!(index < self.len)
RemoveIndexOk(index, n) == index < n

Remove ==
    /\ mode = "vec"
    /\ \E index \in 0..(len + OobSpan - 1) :
        /\ RemoveIndexOk(index, len)
        /\ len' = len - 1
        /\ \E v \in ReadVals(mem[index]) :
            /\ handed' = Bump(handed, v)
            /\ lastOp' = Op("remove", index, 0, Some(v), FALSE, Deref(mem, len))
        /\ mem' = RemoveMem(mem, len', index)
    /\ lifo' = LifoOff
    /\ reuse' = NoReuse
    /\ UNCHANGED <<cap, blk, grows, mode, nextId, dropCnt>>
    /\ UNCHANGED iterVars
    /\ UNCHANGED rawVars
    /\ heap' = NoCall(heap)

\* assert!(index < self.len) fails: nothing was touched.
RemoveOutOfBounds ==
    /\ mode = "vec"
    /\ \E index \in 0..(len + OobSpan - 1) :
        /\ ~RemoveIndexOk(index, len)
        /\ lastOp' = Op("remove_oob", index, 0, None, FALSE, <<>>)
    /\ lifo' = LifoOff
    /\ reuse' = NoReuse
    /\ UNCHANGED <<mode, nextId, dropCnt, handed>>
    /\ UNCHANGED vecVars
    /\ UNCHANGED iterVars
    /\ UNCHANGED rawVars
    /\ heap' = NoCall(heap)

\* ------------------------------------------------------ Deref, DerefMut
\* `mem::replace(&mut vec[index], elem)`: deref_mut hands out the slots
\* [0, len), the caller writes elem into one of them and takes the old value.
DerefMutWrite ==
    /\ mode = "vec"
    /\ nextId <= MaxElems
    /\ \E index \in 0..(len - 1) : \E v \in ReadVals(mem[index]) :
        /\ handed' = Bump(handed, v)
        /\ mem' = [mem EXCEPT ![index] = nextId]
        /\ lastOp' = Op("write", index, nextId, Some(v), FALSE, <<>>)
    /\ nextId' = nextId + 1
    /\ heap' = NoCall(heap)
    /\ lifo' = LifoOff
    /\ reuse' = NoReuse
    /\ UNCHANGED <<cap, len, blk, grows, mode, dropCnt>>
    /\ UNCHANGED iterVars
    /\ UNCHANGED rawVars

\* ------------------------------------------------------------ Vec's Drop
\* Mutant: RawVec's Drop keeps the block.
DeallocLeak(c, b) == b

\* RawVec's Drop: the block goes back to the allocator when cap != 0.
Dealloc(c, b) == IF c # 0 THEN 0 ELSE b

\* `while let Some(_) = self.pop() {}` when cap != 0: every slot of [0, len)
\* is read and its value dropped (the tally does not depend on the order),
\* then the field buf is dropped.
VecDrop ==
    /\ mode = "vec"
    /\ \E vs \in ReadSeqs(mem, 0, IF cap # 0 THEN len ELSE 0) :
        dropCnt' = BumpAll(dropCnt, vs)
    /\ len' = IF cap # 0 THEN 0 ELSE len
    /\ blk' = Dealloc(cap, blk)
    /\ mem' = <<>>
    /\ mode' = "done"
    /\ lastOp' = Op("drop", 0, 0, None, FALSE, <<>>)
    /\ lifo' = LifoOff
    /\ reuse' = NoReuse
    /\ UNCHANGED <<cap, grows, nextId, handed>>
    /\ UNCHANGED iterVars
    /\ UNCHANGED rawVars
    /\ heap' = DropCall(heap, cap, blk, ElemSize)

\* ------------------------------------------------------------ RawIter
\* Mutant: the cursor ends one slot early.
RawIterNewShort(n) == [start |-> 0, end |-> IF n > 0 THEN n - 1 ELSE 0]

\* RawIter::new(slice): start at the slice's first slot, end one past its last.
RawIterNew(n) == [start |-> 0, end |-> n]

\* Mutant: next() does not advance.
NextStartStay(s) == s

\* self.start = self.start.add(1)
NextStart(s) == s + 1

\* self.end = self.end.sub(1)
NextBackEnd(e) == e - 1

\* Mutant: the difference of the addresses is not divided.
SizeHintBytes(s, e) == ((e * ElemSize) - (s * ElemSize)) % UsizeMod

\* RawIter::size_hint, both of its components:
\* (self.end as usize - self.start as usize) / mem::size_of::<T>(), the
\* addresses being those of slots s and e of one block.
SizeHint(s, e) == (((e * ElemSize) - (s * ElemSize)) % UsizeMod) \div ElemSize

\* RawIter::next, reached through IntoIter::next and Drain::next.
RawIterNext ==
    /\ IF start = end
       THEN /\ lastOp' = Op("next", start, 0, None, FALSE, <<>>)
            /\ UNCHANGED <<start, mem, handed, fwd>>
       ELSE /\ \E v \in ReadVals(mem[start]) :
                /\ handed' = Bump(handed, v)
                /\ fwd' = Append(fwd, v)
                /\ lastOp' = Op("next", start, 0, Some(v), FALSE, <<>>)
            /\ mem' = MovedOut(mem, start)
            /\ start' = NextStart(start)
    /\ UNCHANGED <<cap, len, blk, grows, mode, end, nextId, dropCnt, lifo,
                   snap, bwd, reuse>>
    /\ UNCHANGED rawVars
    /\ heap' = NoCall(heap)

\* RawIter::next_back, reached through IntoIter::next_back and
\* Drain::next_back.
RawIterNextBack ==
    /\ IF start = end
       THEN /\ lastOp' = Op("next_back", end, 0, None, FALSE, <<>>)
            /\ UNCHANGED <<end, mem, handed, bwd>>
       ELSE /\ end' = NextBackEnd(end)
            /\ \E v \in ReadVals(mem[end']) :
                /\ handed' = Bump(handed, v)
                /\ bwd' = Append(bwd, v)
                /\ lastOp' = Op("next_back", end', 0, Some(v), FALSE, <<>>)
            /\ mem' = MovedOut(mem, end')
    /\ UNCHANGED <<cap, len, blk, grows, mode, start, nextId, dropCnt, lifo,
                   snap, fwd, reuse>>
    /\ UNCHANGED rawVars
    /\ heap' = NoCall(heap)

\* Mutant: the loop is missing, what was not yielded stays where it is.
RawIterDropNone == dropCnt' = dropCnt

\* `for _ in &mut self.iter {}`: next() until None, dropping what it yields.
RawIterDropRest ==
    \E vs \in ReadSeqs(mem, start, end) : dropCnt' = BumpAll(dropCnt, vs)

\* The cursor and what was recorded about it go away with their owner.
RawIterGone ==
    /\ start' = 0
    /\ end' = 0
    /\ snap' = <<>>
    /\ fwd' = <<>>
    /\ bwd' = <<>>

\* ------------------------------------------------------------ IntoIter
IntoIter ==
    /\ mode = "vec"
    /\ mode' = "iter"
    /\ start' = RawIterNew(len).start
    /\ end' = RawIterNew(len).end
    /\ snap' = Deref(mem, len)
    /\ fwd' = <<>>
    /\ bwd' = <<>>
    /\ lastOp' = Op("into_iter", 0, 0, None, FALSE, <<>>)
    /\ lifo' = LifoOff
    /\ reuse' = NoReuse
    /\ UNCHANGED <<nextId, dropCnt, handed>>
    /\ UNCHANGED vecVars
    /\ UNCHANGED rawVars
    /\ heap' = NoCall(heap)

IntoIterNext == mode = "iter" /\ RawIterNext

IntoIterNextBack == mode = "iter" /\ RawIterNextBack

\* IntoIter's Drop: the loop pulls until start = end and drops each value.
IntoIterDrop ==
    /\ mode = "iter"
    /\ RawIterDropRest
    /\ mem' = [i \in DOMAIN mem |-> IF start <= i /\ i < end THEN Uninit ELSE mem[i]]
    /\ start' = end
    /\ mode' = "iter_buf"
    /\ lastOp' = Op("iter_drop", 0, 0, None, FALSE, <<>>)
    /\ heap' = NoCall(heap)
    /\ UNCHANGED <<cap, len, blk, grows, end, snap, fwd, bwd, nextId, handed,
                   lifo, reuse>>
    /\ UNCHANGED rawVars

\* Then the field _buf is dropped: RawVec's Drop.
IntoIterBufDrop ==
    /\ mode = "iter_buf"
    /\ blk' = Dealloc(cap, blk)
    /\ mem' = <<>>
    /\ mode' = "done"
    /\ RawIterGone
    /\ lastOp' = Op("buf_drop", 0, 0, None, FALSE, <<>>)
    /\ heap' = DropCall(heap, cap, blk, ElemSize)
    /\ UNCHANGED <<cap, len, grows, nextId, dropCnt, handed, lifo, reuse>>
    /\ UNCHANGED rawVars

\* --------------------------------------------------------------- Drain
\* Mutant: drain leaves the length as it was.
DrainLenKeep(n) == n

\* self.len = 0
DrainLen(n) == 0

Drain ==
    /\ mode = "vec"
    /\ mode' = "drain"
    /\ start' = RawIterNew(len).start
    /\ end' = RawIterNew(len).end
    /\ len' = DrainLen(len)
    /\ snap' = Deref(mem, len)
    /\ fwd' = <<>>
    /\ bwd' = <<>>
    /\ lastOp' = Op("drain", 0, 0, None, FALSE, <<>>)
    /\ lifo' = LifoOff
    /\ reuse' = [live |-> TRUE, cap |-> cap, n |-> len, exhausted |-> FALSE,
                 pushes |-> 0]
    /\ UNCHANGED <<cap, mem, blk, grows, nextId, dropCnt, handed>>
    /\ UNCHANGED rawVars
    /\ heap' = NoCall(heap)

DrainNext == mode = "drain" /\ RawIterNext

DrainNextBack == mode = "drain" /\ RawIterNextBack

\* Drain's Drop; the borrow ends and the Vec is the caller's again.
DrainDrop ==
    /\ mode = "drain"
    /\ RawIterDropRest
    /\ mem' = [i \in DOMAIN mem |-> IF start <= i /\ i < end THEN Uninit ELSE mem[i]]
    /\ mode' = "vec"
    /\ RawIterGone
    /\ lastOp' = Op("drain_drop", 0, 0, None, FALSE, <<>>)
    /\ reuse' = [reuse EXCEPT !.exhausted = (start = end)]
    /\ UNCHANGED <<cap, len, blk, grows, nextId, handed, lifo>>
    /\ UNCHANGED rawVars
    /\ heap' = NoCall(heap)

\* ------------------------------------------- the stand-alone RawVec<usize>
\* tests::grow: RawVec::<usize>::new(), while the Vec is still untouched.
\* Byte size of its block: what the last alloc or realloc was asked for.
RawBlk == ArraySize(rawCap, RawElemSize)

RawNew ==
    /\ mode = "vec"
    /\ lastOp.op = "new"
    /\ mode' = "raw"
    /\ rawCap' = 0
    /\ rawGrows' = 0
    /\ UNCHANGED <<nextId, dropCnt, handed, lastOp, lifo, reuse>>
    /\ UNCHANGED vecVars
    /\ UNCHANGED iterVars
    /\ heap' = NoCall(heap)

RawGrow ==
    /\ mode = "raw"
    /\ ~GrowPanics(rawCap, RawElemSize)
    /\ rawCap' = NewCap(rawCap)
    /\ rawGrows' = rawGrows + 1
    /\ UNCHANGED <<mode, nextId, dropCnt, handed, lastOp, lifo, reuse>>
    /\ UNCHANGED vecVars
    /\ UNCHANGED iterVars
    /\ heap' = GrowCall(heap, rawCap, RawBlk, RawElemSize)

\* grow panics with "capacity overflow": the RawVec is as it was.
RawGrowCapacityOverflow ==
    /\ mode = "raw"
    /\ GrowPanics(rawCap, RawElemSize)
    /\ heap' = GrowOverflow(heap)
    /\ UNCHANGED <<mode, nextId, dropCnt, handed, lastOp, lifo, reuse>>
    /\ UNCHANGED vecVars
    /\ UNCHANGED iterVars
    /\ UNCHANGED rawVars

\* The allocator answers grow with null.
RawGrowAllocNull ==
    /\ mode = "raw"
    /\ ~GrowPanics(rawCap, RawElemSize)
    /\ rawCap' = CapAfterNull(rawCap)
    /\ heap' = GrowNullCall(heap, rawCap, RawBlk, RawElemSize)
    /\ mode' = IF NullEnds(rawCap) = "abort" THEN "aborted" ELSE mode
    /\ UNCHANGED <<rawGrows, nextId, dropCnt, handed, lastOp, lifo, reuse>>
    /\ UNCHANGED vecVars
    /\ UNCHANGED iterVars

RawDrop ==
    /\ mode = "raw"
    /\ mode' = "vec"
    /\ rawCap' = 0
    /\ rawGrows' = 0
    /\ UNCHANGED <<nextId, dropCnt, handed, lastOp, lifo, reuse>>
    /\ UNCHANGED vecVars
    /\ UNCHANGED iterVars
    /\ heap' = DropCall(heap, rawCap, RawBlk, RawElemSize)

\* ------------------------------------------------------------------- Next
Next ==
    \/ Push
    \/ PushCapacityOverflow
    \/ PushAllocNull
    \/ Pop
    \/ Insert
    \/ InsertOutOfBounds
    \/ InsertCapacityOverflow
    \/ InsertAllocNull
    \/ Remove
    \/ RemoveOutOfBounds
    \/ DerefMutWrite
    \/ VecDrop
    \/ IntoIter
    \/ IntoIterNext
    \/ IntoIterNextBack
    \/ IntoIterDrop
    \/ IntoIterBufDrop
    \/ Drain
    \/ DrainNext
    \/ DrainNextBack
    \/ DrainDrop
    \/ RawNew
    \/ RawGrow
    \/ RawGrowCapacityOverflow
    \/ RawGrowAllocNull
    \/ RawDrop

Spec == Init /\ [][Next]_vars

\* ================================================================ claims
Pow2(k) == 2 ^ k

Reverse(q) == [i \in 1..Len(q) |-> q[Len(q) + 1 - i]]

\* q with x put before its element of index i (counted from 0).
InsertAt(q, i, x) == SubSeq(q, 1, i) \o <<x>> \o SubSeq(q, i + 1, Len(q))

\* q without its element of index i (counted from 0).
RemoveAt(q, i) == SubSeq(q, 1, i) \o SubSeq(q, i + 2, Len(q))

\* The elements constructed so far.
Constructed == 1..(nextId - 1)

\* C1: whatever the operations were, no element is destroyed twice, none
\* is both handed to the caller and dropped by the container, iterator or
\* extractor, nothing that was never constructed is destroyed, and once
\* every live object is destroyed each constructed element was destroyed
\* exactly once.
C1_EachElementDestroyedOnce ==
    /\ \A v \in 0..MaxElems : dropCnt[v] + handed[v] <= 1
    /\ \A v \in (0..MaxElems) \ Constructed : dropCnt[v] + handed[v] = 0
    /\ mode = "done" => \A v \in Constructed : dropCnt[v] + handed[v] = 1

\* C2: in every reachable state 0 <= len <= cap.
C2_LenWithinCap == 0 <= len /\ len <= cap

\* C2 witness: a full Vec of two or more elements right after remove
\* panicked on its index.
C2_Witness == lastOp.op = "remove_oob" /\ len = cap /\ len >= 2

\* C3: after N appends to a new Vec, the k-th remove_last (k <= N) yields
\* the (N-k+1)-th appended value, and the (N+1)-th yields None with len 0.
C3_PushPopLifo ==
    lifo.phase = "pop" =>
        /\ lastOp.op = "pop"
        /\ lifo.pops <= nextId - 1 =>
                /\ lastOp.ret = Some(nextId - lifo.pops)
                /\ len = nextId - 1 - lifo.pops
        /\ lifo.pops = nextId =>
                /\ lastOp.ret = None
                /\ len = 0
\* What a cursor over the slice `was` has yielded so far: next() took the
\* slots from the front in order, next_back() those from the back in
\* reverse order, no slot was taken twice, and a pull found nothing only
\* when all of them had been taken.  A slot that held no value when the
\* cursor was made (see C15) is left out of the comparison.
YieldsOf(was) ==
    /\ start <= end
    /\ end <= Len(was)
    /\ Len(fwd) = start
    /\ Len(bwd) = Len(was) - end
    /\ \A k \in 1..Len(fwd) : was[k] # Uninit => fwd[k] = was[k]
    /\ \A k \in 1..Len(bwd) :
         was[Len(was) + 1 - k] # Uninit => bwd[k] = was[Len(was) + 1 - k]
    /\ (lastOp.op \in {"next", "next_back"} /\ lastOp.ret = None) =>
         Len(fwd) + Len(bwd) = Len(was)
    /\ (lastOp.op = "next" /\ lastOp.ret # None) =>
         lastOp.ret = Some(fwd[Len(fwd)])
    /\ (lastOp.op = "next_back" /\ lastOp.ret # None) =>
         lastOp.ret = Some(bwd[Len(bwd)])

\* C4: the consuming iterator of a Vec holding e0..e(N-1) yields to forward
\* pulls e0, e1, ... and to backward pulls e(N-1), e(N-2), ..., each element
\* once whatever the interleaving, and is exhausted after N pulls and not
\* before.
C4_IntoIterYieldsAll == mode = "iter" => YieldsOf(snap)

\* C4 witness: four elements, two pulled from each end, and a further pull
\* that found the iterator exhausted.
C4_Witness ==
    /\ mode = "iter"
    /\ Len(snap) = 4
    /\ \A k \in 1..4 : snap[k] # Uninit
    /\ Len(fwd) = 2
    /\ Len(bwd) = 2
    /\ lastOp.ret = None

\* C5: from the moment a drain extractor is made, len is 0 and cap and the
\* block are those of before; after it is gone the next appends, up to
\* cap of them, land in slots 0, 1, ... and leave cap and the block alone.
C5_DrainLeavesReusable ==
    reuse.live =>
        /\ cap = reuse.cap
        /\ blk = ArraySize(reuse.cap, ElemSize)
        /\ mode = "drain" => len = 0
        /\ mode = "vec" =>
            /\ len = reuse.pushes
            /\ \A j \in 0..(len - 1) : mem[j] = nextId - len + j

\* C5 witness: a Vec of two elements and capacity 2 was drained to
\* exhaustion, and two appends have filled it again.
C5_Witness ==
    /\ reuse.live
    /\ reuse.exhausted
    /\ reuse.n = 2
    /\ reuse.cap = 2
    /\ reuse.pushes = 2
    /\ mode = "vec"

\* C6: a drain extractor made on a Vec holding e0..e(N-1) yields exactly
\* as the consuming iterator does: front to back to next(), back to front
\* to next_back(), each element once, exhausted after N pulls.
C6_DrainYieldsAll == mode = "drain" => YieldsOf(snap)

\* C6 witness: three elements, pulled back, front, back, and a further pull
\* that found the extractor exhausted.
C6_Witness ==
    /\ mode = "drain"
    /\ Len(snap) = 3
    /\ \A k \in 1..3 : snap[k] # Uninit
    /\ Len(fwd) = 1
    /\ Len(bwd) = 2
    /\ lastOp.op = "next"
    /\ lastOp.ret = None

\* C7: insert(i, x) directly followed by remove(i) returns x and leaves
\* the contents [0, len) as they were before the insert.
C7_InsertRemoveInverse ==
    [][(lastOp.op = "insert" /\ lastOp'.op = "remove" /\ lastOp'.idx = lastOp.idx)
         => /\ lastOp'.ret = Some(lastOp.val)
            /\ len' = Len(lastOp.before)
            /\ Deref(mem', len') = lastOp.before]_vars

\* C8: after insert(index, value) the contents are
\* old[0..index) ++ [value] ++ old[index..len) and len is one more.
C8_InsertShiftsUp ==
    lastOp.op = "insert" =>
        /\ len = Len(lastOp.before) + 1
        /\ Deref(mem, len) = InsertAt(lastOp.before, lastOp.idx, lastOp.val)

\* C9: remove(index) returns the value that was at index and leaves
\* old[0..index) ++ old[index+1..len), len being one less.
C9_RemoveShiftsDown ==
    lastOp.op = "remove" =>
        /\ len = Len(lastOp.before) - 1
        /\ Deref(mem, len) = RemoveAt(lastOp.before, lastOp.idx)
        /\ lastOp.before[lastOp.idx + 1] # Uninit =>
             lastOp.ret = Some(lastOp.before[lastOp.idx + 1])

\* C9 witness: remove(1) on four elements, so that two elements moved down.
C9_Witness ==
    /\ lastOp.op = "remove"
    /\ lastOp.idx = 1
    /\ Len(lastOp.before) = 4
    /\ \A k \in 1..4 : lastOp.before[k] # Uninit

\* C10: after k >= 1 successful grow calls on a storage that started with
\* capacity 0 the capacity is 2^(k-1): 1, 2, 4, 8, ...
C10_GrowthDoubling ==
    /\ rawCap = (IF rawGrows = 0 THEN 0 ELSE Pow2(rawGrows - 1))
    /\ cap = (IF grows = 0 THEN 0 ELSE Pow2(grows - 1))

\* C10 witness: the stand-alone RawVec after its seventh growth.
C10_Witness == mode = "raw" /\ rawGrows = 7 /\ rawCap = 64

\* C11: insert with index > len and remove with index >= len (any remove on
\* an empty Vec among them) end in the panic of the assert and leave the Vec
\* as it was: len, cap, the block and its contents are unchanged, grow was
\* not called and the allocator saw no call.
C11_OutOfRangeLeavesVecAlone ==
    [][(mode = "vec" /\ lastOp' # lastOp) =>
        /\ (/\ lastOp'.op \in {"insert", "insert_oob", "insert_panic",
                                "insert_null"}
            /\ lastOp'.idx > len) =>
                /\ lastOp'.op = "insert_oob"
                /\ UNCHANGED <<cap, len, mem, blk, grows, mode>>
                /\ heap'.call = "none" /\ heap'.grow = "none"
                /\ heap'.live = heap.live
        /\ (/\ lastOp'.op \in {"remove", "remove_oob"}
            /\ lastOp'.idx >= len) =>
                /\ lastOp'.op = "remove_oob"
                /\ UNCHANGED <<cap, len, mem, blk, grows, mode>>
                /\ heap'.call = "none" /\ heap'.grow = "none"
                /\ heap'.live = heap.live
      ]_vars

\* C11 witness: insert two slots past the end of a full Vec of two elements
\* panicked: the Vec has grown twice (0 -> 1 -> 2) and not a third time.
C11_Witness ==
    /\ lastOp.op = "insert_oob"
    /\ lastOp.idx = len + 2
    /\ len = 2
    /\ cap = 2
    /\ grows = 2
    /\ heap.call = "none"

\* C12: the slice the Vec derefs to (shared or mutable) is the slots
\* [0, len), inside the block, each holding an initialised live value; and
\* a write through the mutable slice changes the addressed slot only, not
\* len, not cap, not the block.
C12_ViewIsLiveContents ==
    [][/\ mode' = "vec" =>
            /\ len' <= cap'
            /\ \A i \in 1..len' : Deref(mem', len')[i] # Uninit
       /\ (lastOp'.op = "write" /\ lastOp' # lastOp) =>
            /\ UNCHANGED <<len, cap, blk, heap.live>>
            /\ heap'.call = "none"
            /\ \A i \in DOMAIN mem : i # lastOp'.idx => mem'[i] = mem[i]
      ]_vars

\* The blocks the program holds: the one behind Vec.buf (or IntoIter._buf)
\* and the one behind the stand-alone RawVec.
HeldBlocks == (IF blk # 0 THEN 1 ELSE 0) + (IF rawCap # 0 THEN 1 ELSE 0)

\* C13: a block got from the allocator is held by one owner and goes back
\* exactly once, when that owner is destroyed: the allocator's live blocks
\* are the held ones, a storage has a block exactly while its cap is not 0,
\* dealloc is never called for cap 0, into_iter hands the block over
\* unreleased, a drain extractor makes no allocator call, nothing of a
\* released block is left to access, and when every owner is gone no block
\* is live.
C13_BlockReleasedOnce ==
    /\ heap.live = HeldBlocks
    /\ mode \in {"vec", "iter", "iter_buf", "drain", "raw"} =>
            (blk # 0 <=> cap # 0)
    /\ heap.call = "dealloc" => heap.actual # 0
    /\ mode \in {"iter", "iter_buf"} => (blk = ArraySize(cap, ElemSize))
    /\ lastOp.op = "into_iter" => heap.call = "none"
    /\ mode = "drain" => (heap.call = "none" /\ blk = ArraySize(cap, ElemSize))
    /\ blk = 0 => mem = <<>>
    /\ blk # 0 => DOMAIN mem = 0..(cap - 1)
    /\ mode = "done" => (blk = 0 /\ heap.live = 0)

\* C13 witness: a consuming iterator of a Vec that had grown to cap 4 is
\* gone, and the drop of its buffer gave the 64-byte block back.
C13_Witness ==
    /\ mode = "done"
    /\ lastOp.op = "buf_drop"
    /\ cap = 4
    /\ heap.call = "dealloc"
    /\ heap.actual = ArraySize(4, ElemSize)
    /\ heap.live = 0

\* C14: when a storage is released, the size dealloc is given is
\* cap * size_of::<T>(), which is the size the block was obtained with or
\* the new size asked of the last realloc; with cap 0 the drop makes no
\* allocator call.
C14_DeallocPassesBlockSize ==
    /\ heap.call = "dealloc" =>
            /\ heap.size = heap.actual
            /\ lastOp.op \in {"drop", "buf_drop"} =>
                    heap.size = ArraySize(cap, ElemSize)
    /\ (lastOp.op \in {"drop", "buf_drop"} /\ cap = 0) => heap.call = "none"
    /\ mode \in {"vec", "iter", "iter_buf", "drain"} =>
            blk = ArraySize(cap, ElemSize)

\* C14 witness: a Vec of capacity 2 was dropped and dealloc was given the
\* 32 bytes of its block.
C14_Witness ==
    /\ mode = "done"
    /\ lastOp.op = "drop"
    /\ cap = 2
    /\ heap.call = "dealloc"
    /\ heap.size = 32
    /\ heap.actual = 32

\* C15: whenever grow resizes an existing block (cap > 0), the old size it
\* passes to realloc is the byte size the block has, cap * size_of::<T>(),
\* at every capacity 1, 2, 4, ...
C15_ReallocPassesBlockSize ==
    heap.call = "realloc" => heap.old = heap.actual

\* C16: when a consuming iterator is destroyed, after any forward and
\* backward pulls, its Drop runs the destructor of every element still in
\* [start, end) exactly once and of nothing else, hands nothing out and
\* leaves the block with the allocator's caller; only the step after that,
\* the drop of _buf, releases the block, once, and only when cap > 0, and
\* runs no destructor.
C16_IntoIterDropsRestThenReleases ==
    [][/\ (mode = "iter" /\ mode' # "iter") =>
            /\ mode' = "iter_buf"
            /\ (\A i \in start..(end - 1) : mem[i] # Uninit) =>
                    \A v \in 0..MaxElems :
                        dropCnt'[v] = dropCnt[v] +
                            Cardinality({i \in start..(end - 1) : mem[i] = v})
            /\ UNCHANGED <<handed, blk, cap, heap.live>>
            /\ DOMAIN mem' = DOMAIN mem
            /\ heap'.call = "none"
       /\ (mode = "iter_buf" /\ mode' # "iter_buf") =>
            /\ mode' = "done"
            /\ UNCHANGED <<dropCnt, handed>>
            /\ blk' = 0
            /\ heap'.call = (IF cap # 0 THEN "dealloc" ELSE "none")
            /\ heap'.live = heap.live - (IF cap # 0 THEN 1 ELSE 0)
            /\ heap'.live = 0
      ]_vars

\* C16 witness: an iterator over four elements that yielded one from each
\* end was destroyed: the two in the middle are dropped, the 64-byte block
\* is still there.
C16_Witness ==
    /\ mode = "iter_buf"
    /\ Len(snap) = 4
    /\ \A k \in 1..4 : snap[k] # Uninit
    /\ Len(fwd) = 1
    /\ Len(bwd) = 1
    /\ dropCnt[snap[2]] = 1
    /\ dropCnt[snap[3]] = 1
    /\ dropCnt[snap[1]] = 0
    /\ dropCnt[snap[4]] = 0
    /\ blk = ArraySize(4, ElemSize)
    /\ heap.live = 1

\* The storage a step's grow call works on: cap and element size.
GrowCap == IF mode = "raw" THEN rawCap ELSE cap
GrowElemSize == IF mode = "raw" THEN RawElemSize ELSE ElemSize

\* C17: grow looks at the byte size of the doubled capacity before it
\* resizes: when that size (as a number, not reduced modulo the word) is
\* above isize::MAX, grow panics with "capacity overflow", the allocator
\* sees no call and cap and the block stay as they are.  So no storage ever
\* has isize::MAX bytes or more, and no capacity ever gets smaller by
\* wrapping around.
C17_GrowChecksSizeFirst ==
    [][/\ (heap'.grow # "none" /\ GrowCap # 0
             /\ GrowCap * 2 * GrowElemSize > ISizeMax) =>
            /\ heap'.grow = "overflow"
            /\ heap'.call = "none"
            /\ heap'.live = heap.live
            /\ UNCHANGED <<cap, len, blk, mem, rawCap, mode>>
       /\ blk' < ISizeMax
       /\ ArraySize(cap', ElemSize) < ISizeMax
       /\ ArraySize(rawCap', RawElemSize) < ISizeMax
       /\ cap' >= cap
       /\ (mode = "raw" /\ mode' = "raw") => rawCap' >= rawCap
      ]_vars

\* C17 witness: push on a full Vec of capacity 4 (the doubled block would
\* have 128 bytes) panicked, and the stand-alone RawVec is not in play.
C17_Witness ==
    /\ lastOp.op = "push_panic"
    /\ heap.grow = "overflow"
    /\ cap = 4
    /\ len = 4
    /\ blk = ArraySize(4, ElemSize)
    /\ ArraySize(NewCap(cap), ElemSize) > ISizeMax

\* C18: when the allocator answers grow with null (alloc from cap 0, or
\* realloc), grow ends fatally, by a panic from cap 0 and by aborting the
\* process otherwise: cap, len, the block and its contents are as before,
\* no growth is counted, null never stands for a block (a storage with
\* cap > 0 has one), and nothing runs after the abort.
C18_NullNeverStored ==
    [][/\ heap'.grow = "null" =>
            /\ UNCHANGED <<cap, len, mem, blk, grows, rawCap, rawGrows>>
            /\ heap'.live = heap.live
            /\ IF GrowCap = 0 THEN mode' = mode ELSE mode' = "aborted"
            /\ mode = "vec" => handed' = handed
       /\ mode' \in {"vec", "iter", "iter_buf", "drain"} =>
            (cap' # 0 => blk' # 0)
       /\ mode # "aborted"
      ]_vars

\* C18 witness: insert into a full Vec of capacity 2 got null from realloc
\* and the process was aborted with the Vec as it was.
C18_Witness ==
    /\ mode = "aborted"
    /\ lastOp.op = "insert_null"
    /\ heap.call = "realloc"
    /\ heap.grow = "null"
    /\ cap = 2
    /\ len = 2
    /\ blk = ArraySize(2, ElemSize)
    /\ heap.live = 1

\* The smallest power of two that is at least n; 0 for n = 0.
SmallestPow2AtLeast(n) ==
    IF n = 0 THEN 0
    ELSE LET P == {Pow2(k) : k \in 0..MaxElems}
         IN  CHOOSE p \in P : p >= n /\ \A q \in P : q >= n => p <= q

\* C19: cap changes only in a push or an insert that found len = cap, and
\* then by one growth (0 -> 1, else doubled); pop, remove, drain, pulls, a
\* write through the slice, and a push or insert with len < cap leave cap
\* and the block alone and call no allocator.  So cap never decreases, is 0
\* or a power of two, and after n appends to a new Vec it is the smallest
\* power of two >= n (0 for n = 0).
C19_CapChangesOnlyWhenFull ==
    [][/\ cap' # cap =>
            /\ lastOp'.op \in {"push", "insert"}
            /\ len = cap
            /\ cap' = (IF cap = 0 THEN 1 ELSE 2 * cap)
            /\ grows' = grows + 1
            /\ heap'.grow = "ok"
       /\ (blk' # blk /\ cap' = cap) => mode' = "done"
       /\ (/\ lastOp' # lastOp
           /\ lastOp'.op \in {"pop", "remove", "remove_oob", "drain", "next",
                              "next_back", "drain_drop", "write",
                              "insert_oob"}) =>
            /\ UNCHANGED <<cap, blk>>
            /\ heap'.call = "none"
       /\ (lastOp' # lastOp /\ lastOp'.op \in {"push", "insert"}
             /\ len < cap) =>
            /\ UNCHANGED <<cap, blk>>
            /\ heap'.call = "none"
       /\ cap' >= cap
       /\ cap' = 0 \/ \E k \in 0..MaxElems : cap' = Pow2(k)
       /\ lifo'.phase = "push" =>
            /\ len' = nextId' - 1
            /\ cap' = SmallestPow2AtLeast(len')
      ]_vars

\* C19 witness: a Vec that had grown to capacity 4 and was shortened took
\* an insert into the room it had: cap is still 4 and the last step did not
\* grow.
C19_Witness ==
    /\ mode = "vec"
    /\ lastOp.op = "insert"
    /\ ~lastOp.grew
    /\ len = 2
    /\ cap = 4
    /\ grows = 3
    /\ heap.call = "none"
    /\ blk = ArraySize(4, ElemSize)

\* C20: the cursor of a consuming iterator or drain extractor has
\* start <= end in every state, whatever the interleaving of pulls; a pull
\* that finds start < end yields a value and moves exactly one boundary by
\* exactly one slot towards the other (next the start, next_back the end);
\* a pull that finds start = end yields None and moves neither; and
\* size_hint is end - start, counted in slots.
C20_CursorBounds ==
    [][/\ mode' \in {"iter", "drain"} =>
            /\ 0 <= start'
            /\ start' <= end'
            /\ end' <= Len(snap')
            /\ SizeHint(start', end') = end' - start'
       /\ (mode \in {"iter", "drain"} /\ mode' = mode) =>
            IF start = end
            THEN /\ lastOp'.ret = None
                 /\ UNCHANGED <<start, end>>
            ELSE /\ lastOp'.ret # None
                 /\ \/ /\ lastOp'.op = "next"
                       /\ start' = start + 1
                       /\ end' = end
                    \/ /\ lastOp'.op = "next_back"
                       /\ end' = end - 1
                       /\ start' = start
      ]_vars

\* C20 witness: a consuming iterator over four elements gave three to next
\* and one to next_back, the boundaries met at slot 3, and a further
\* next_back found it exhausted: size_hint is 0 and neither boundary moved.
C20_Witness ==
    /\ mode = "iter"
    /\ Len(snap) = 4
    /\ start = 3
    /\ end = 3
    /\ Len(fwd) = 3
    /\ Len(bwd) = 1
    /\ lastOp.op = "next_back"
    /\ lastOp.ret = None
    /\ SizeHint(start, end) = 0

====
